---------------------------- MODULE Spec2Model ----------------------------
(***************************************************************************)
(* A model of OnnxModel (onnxruntime/python/tools/transformers/            *)
(* onnx_model.py): the graph collection, the node mutations, parent path   *)
(* matching, graph pruning and the topological sort.                       *)
(*                                                                         *)
(* A NodeProto is a record [name, op_type, input, output, g]: input and    *)
(* output are sequences of value names ("" is an omitted optional input or *)
(* output), g is the sequence of the graphs held by the node's GRAPH and   *)
(* GRAPHS attributes, each given by its graph id.  Nodes are compared by   *)
(* content, as protobuf messages are by == and by `in`.                    *)
(* A GraphProto is a record [name, node, input, output, initializer]; the  *)
(* last three hold the names of the declared inputs, outputs and           *)
(* initializer tensors.  Graph objects live in `graph`, keyed by graph id; *)
(* graph[Primary] is self.model.graph.                                     *)
(***************************************************************************)
EXTENDS Integers, Sequences, FiniteSets, TLC

VARIABLES
    graph,       \* graph id -> GraphProto: self.model.graph and the nested graphs
    all_graphs,  \* self.all_graphs: sequence of graph ids; <<>> stands for None
    ret,         \* the last operation called, its arguments and what it returned
    node_name_suffix,  \* self._node_name_suffix: name prefix -> last suffix generated
    minted       \* history: the names create_node_name has returned so far

vars == <<graph, all_graphs, ret, node_name_suffix, minted>>

\* The naming state, which only create_node_name reads and writes.
naming == <<node_name_suffix, minted>>

\* The naming state after construction: self._node_name_suffix = {}.
FreshNaming == node_name_suffix = [prefix \in {} |-> 0] /\ minted = {}

(***************************************************************************)
(* Bounds of the model.                                                    *)
(***************************************************************************)
MaxNodes == 4

(***************************************************************************)
(* Graph ids and graph names.                                              *)
(***************************************************************************)
Primary == 0
Body == 1
GraphIds == {Primary, Body}

None == [name |-> "None", op_type |-> "None", input |-> <<>>, output |-> <<>>, g |-> <<>>]

Node(name, op_type, input, output) ==
    [name |-> name, op_type |-> op_type, input |-> input, output |-> output, g |-> <<>>]

(***************************************************************************)
(* The nodes the model draws its graphs from.  Every value name has at     *)
(* most one producer among them (single assignment); "x" is a graph input  *)
(* and "w" an initializer.  nZ leaves its first output out; nC, nD and nF  *)
(* leave an optional input out; nD and nE form a cycle; nL is a control    *)
(* flow node holding the nested graph Body, whose only node is nN.         *)
(***************************************************************************)
nK == Node("Constant_0", "Constant", <<>>, <<"k">>)
nZ == Node("Split_0", "Split", <<"x">>, <<"", "z">>)
nA == Node("Add_0", "Add", <<"z", "k">>, <<"a">>)
nB == Node("Mul_0", "Mul", <<"z", "w">>, <<"b">>)
nC == Node("Clip_0", "Clip", <<"a", "", "w">>, <<"c">>)
nD == Node("Add_1", "Add", <<"e", "">>, <<"d">>)
nE == Node("Mul_1", "Mul", <<"d">>, <<"e">>)
nF == Node("Relu_0", "Relu", <<"k", "">>, <<"f">>)
nL == [name |-> "If_0", op_type |-> "If", input |-> <<"k">>, output |-> <<"l">>, g |-> <<Body>>]
nN == Node("Neg_0", "Neg", <<"k">>, <<"n">>)

NodePool == {nK, nZ, nA, nB, nC, nD, nE, nF, nL}

(***************************************************************************)
(* Python's order of the value names (str.__lt__), as list.sort() uses it. *)
(***************************************************************************)
NameOrder == <<"", "a", "b", "c", "d", "e", "f", "k", "l", "n", "w", "x", "z">>

Rank(name) == CHOOSE i \in 1..Len(NameOrder) : NameOrder[i] = name

Range(s) == {s[i] : i \in 1..Len(s)}

RECURSIVE Concat(_)
Concat(ss) == IF ss = <<>> THEN <<>> ELSE Head(ss) \o Concat(Tail(ss))

\* The sequences of at most n distinct elements of S.
RECURSIVE DistinctSeqs(_, _)
DistinctSeqs(S, n) ==
    IF n = 0 THEN {<<>>}
    ELSE LET shorter == DistinctSeqs(S, n - 1)
         IN  shorter \cup {Append(s, e) : <<s, e>> \in
                              {p \in shorter \X S : p[2] \notin Range(p[1])}}


(***************************************************************************)
(* graph_topological_sort(graph).  The sort works on node indices (1-based *)
(* here); its state is deps_count, the dependency count of each node, and  *)
(* sorted_nodes, the indices emitted so far.                               *)
(***************************************************************************)

\* deps_count[node_idx] = sum(1 for _ in node.input if _)
DepsCount(node) == Cardinality({j \in 1..Len(node.input) : node.input[j] # ""})

\* The input names a node enters into deps_to_nodes: every entry of
\* node.input, the empty ones too, unless the node has no dependency at all.
RegisteredInputs(node) == IF DepsCount(node) = 0 THEN <<>> ELSE node.input

\* deps_to_nodes[name]: the node indices entered under name, in node order,
\* one entry per occurrence of the name in the node's inputs.
deps_to_nodes(nodes, name) ==
    Concat([node_idx \in 1..Len(nodes) |->
              [j \in 1..Len(SelectSeq(RegisteredInputs(nodes[node_idx]),
                                      LAMBDA input_name : input_name = name))
                 |-> node_idx]])

\* The state after the first loop: nodes without dependency are emitted.
InitialSortState(nodes) ==
    [deps_count |-> [node_idx \in 1..Len(nodes) |-> DepsCount(nodes[node_idx])],
     sorted_nodes |-> SelectSeq([node_idx \in 1..Len(nodes) |-> node_idx],
                                LAMBDA node_idx : DepsCount(nodes[node_idx]) = 0)]

\* deps_count[node_idx] = deps_count[node_idx] - 1, and the node is emitted
\* when the count becomes 0.
Decrement(st, node_idx) ==
    LET count == st.deps_count[node_idx] - 1
    IN  [deps_count |-> [st.deps_count EXCEPT ![node_idx] = count],
         sorted_nodes |-> IF count = 0 THEN Append(st.sorted_nodes, node_idx)
                          ELSE st.sorted_nodes]

\* for node_idx in deps_to_nodes[name]: ...
RECURSIVE DecrementAll(_, _)
DecrementAll(st, node_indices) ==
    IF node_indices = <<>> THEN st
    ELSE DecrementAll(Decrement(st, Head(node_indices)), Tail(node_indices))

Reverse(s) == [i \in 1..Len(s) |-> s[Len(s) + 1 - i]]

\* Mutant of Resolve: the dependents of a name are visited last to first.
Resolve_LastFirst(nodes, st, name) ==
    DecrementAll(st, Reverse(deps_to_nodes(nodes, name)))

\* if name in deps_to_nodes: for node_idx in deps_to_nodes[name]: ...
Resolve(nodes, st, name) == DecrementAll(st, deps_to_nodes(nodes, name))

\* list.sort() on names: insertion into a sequence kept in Python's order.
RECURSIVE InsertName(_, _)
InsertName(sorted, name) ==
    IF sorted = <<>> THEN <<name>>
    ELSE IF Rank(name) < Rank(Head(sorted)) THEN <<name>> \o sorted
    ELSE <<Head(sorted)>> \o InsertName(Tail(sorted), name)

RECURSIVE SortNames(_)
SortNames(names) ==
    IF names = <<>> THEN <<>>
    ELSE InsertName(SortNames(SubSeq(names, 1, Len(names) - 1)), names[Len(names)])

\* The loop over the sorted initializer and graph input names; an entry equal
\* to the one before it (prev_input_name) is skipped.
RECURSIVE ResolveInputNames(_, _, _, _)
ResolveInputNames(nodes, st, input_names, i) ==
    IF i > Len(input_names) THEN st
    ELSE IF i > 1 /\ input_names[i - 1] = input_names[i]
         THEN ResolveInputNames(nodes, st, input_names, i + 1)
    ELSE ResolveInputNames(nodes, Resolve(nodes, st, input_names[i]), input_names, i + 1)

\* for output in sorted_nodes[start].output: ...
RECURSIVE ResolveOutputs(_, _, _)
ResolveOutputs(nodes, st, outputs) ==
    IF outputs = <<>> THEN st
    ELSE ResolveOutputs(nodes, Resolve(nodes, st, Head(outputs)), Tail(outputs))

\* while start < end: ...; start counts the emitted nodes already drained.
RECURSIVE Drain(_, _, _)
Drain(nodes, st, start) ==
    IF start >= Len(st.sorted_nodes) THEN st
    ELSE Drain(nodes,
               ResolveOutputs(nodes, st, nodes[st.sorted_nodes[start + 1]].output),
               start + 1)

graph_topological_sort_RewritesFirst(g) ==
    LET input_names == SortNames(g.initializer \o g.input)
        st == Drain(g.node,
                    ResolveInputNames(g.node, InitialSortState(g.node), input_names, 1),
                    0)
        emitted == [i \in 1..Len(st.sorted_nodes) |-> g.node[st.sorted_nodes[i]]]
    IN  [raised |-> Len(st.sorted_nodes) # Len(g.node),
         emitted |-> emitted,
         node |-> emitted]

\* The whole sort: raised is the failed assertion "Graph is not a DAG",
\* emitted the nodes of sorted_nodes, node the graph's node list afterwards.
graph_topological_sort(g) ==
    LET input_names == SortNames(g.initializer \o g.input)
        st == Drain(g.node,
                    ResolveInputNames(g.node, InitialSortState(g.node), input_names, 1),
                    0)
        emitted == [i \in 1..Len(st.sorted_nodes) |-> g.node[st.sorted_nodes[i]]]
        raised == Len(st.sorted_nodes) # Len(g.node)
    IN  [raised |-> raised,
         emitted |-> emitted,
         node |-> IF raised THEN g.node ELSE emitted]

(***************************************************************************)
(* The graph collection.  The operators below take the graph objects G     *)
(* (graph id -> GraphProto) and, where the code calls self.graphs(), the   *)
(* sequence gs of graph ids that call returns.                             *)
(***************************************************************************)

\* The graphs held by the GRAPH and GRAPHS attributes of the nodes of a graph,
\* in node order.
NestedGraphs(g) == Concat([i \in 1..Len(g.node) |-> g.node[i].g])

\* The loop of graphs(): graph_queue.pop(0) is appended to all_graphs and the
\* graphs its nodes hold are queued.
RECURSIVE Discover(_, _, _)
Discover(G, graph_queue, found) ==
    IF graph_queue = <<>> THEN found
    ELSE Discover(G, Tail(graph_queue) \o NestedGraphs(G[Head(graph_queue)]),
                  Append(found, Head(graph_queue)))

\* Mutant of graphs: the cache is not used, every call discovers afresh.
graphs_Recomputed(G, cache) == Discover(G, <<Primary>>, <<>>)

\* graphs(): the cached sequence when there is one, else a fresh discovery
\* (which the caller stores in all_graphs).
graphs(G, cache) == IF cache # <<>> THEN cache ELSE Discover(G, <<Primary>>, <<>>)

\* nodes(): the nodes of all discovered graphs.
nodes(G, gs) == Concat([i \in 1..Len(gs) |-> G[gs[i]].node])

\* get_graph_by_node(node): <<gid>> of the first discovered graph holding a
\* node equal to it, <<>> for None.
get_graph_by_node(G, gs, node) ==
    LET holding == SelectSeq(gs, LAMBDA gid : node \in Range(G[gid].node))
    IN  IF holding = <<>> THEN <<>> ELSE <<Head(holding)>>

\* get_graph_by_name(graph_name): <<gid>> or <<>> for None.
get_graph_by_name(G, gs, graph_name) ==
    LET named == SelectSeq(gs, LAMBDA gid : G[gid].name = graph_name)
    IN  IF named = <<>> THEN <<>> ELSE <<Head(named)>>

\* repeated.remove(x): drops the first element equal to x.
RECURSIVE RemoveFirst(_, _)
RemoveFirst(s, x) ==
    IF s = <<>> THEN <<>>
    ELSE IF Head(s) = x THEN Tail(s)
    ELSE <<Head(s)>> \o RemoveFirst(Tail(s), x)

\* remove_node(node): for graph in self.graphs(): if node in graph.node:
\* graph.node.remove(node)
remove_node(G, gs, node) ==
    [gid \in DOMAIN G |->
        IF gid \in Range(gs) /\ node \in Range(G[gid].node)
        THEN [G[gid] EXCEPT !.node = RemoveFirst(@, node)]
        ELSE G[gid]]

\* remove_nodes(nodes_to_remove)
RECURSIVE remove_nodes(_, _, _)
remove_nodes(G, gs, nodes_to_remove) ==
    IF nodes_to_remove = <<>> THEN G
    ELSE remove_nodes(remove_node(G, gs, Head(nodes_to_remove)), gs, Tail(nodes_to_remove))

\* Mutant of get_topological_insert_id: the consumers are not looked for.
get_topological_insert_id_AtEnd(g, outputs) == Len(g.node)

\* get_topological_insert_id(graph, outputs): the index (0-based) of the
\* first node with an input among outputs, else len(graph.node).
get_topological_insert_id(g, outputs) ==
    LET consumers == {idx \in 1..Len(g.node) : Range(g.node[idx].input) \cap Range(outputs) # {}}
    IN  IF consumers = {} THEN Len(g.node)
        ELSE (CHOOSE idx \in consumers : \A other \in consumers : idx <= other) - 1

\* list.insert(insert_idx, x) for 0 <= insert_idx <= len(list).
Insert(s, insert_idx, x) ==
    SubSeq(s, 1, insert_idx) \o <<x>> \o SubSeq(s, insert_idx + 1, Len(s))

\* add_node(node, graph_name): graph_name is <<>> for None, else <<name>>.
\* Appends to the primary graph, or inserts into the named graph found by
\* get_graph_by_name (which calls and caches self.graphs()); when that
\* returns None, graph.node raises AttributeError.
add_node(G, cache, node, graph_name) ==
    IF graph_name = <<>> \/ graph_name[1] = G[Primary].name
    THEN [graph |-> [G EXCEPT ![Primary].node = Append(@, node)],
          all_graphs |-> cache, raised |-> FALSE]
    ELSE LET gs == graphs(G, cache)
             found == get_graph_by_name(G, gs, graph_name[1])
         IN  IF found = <<>>
             THEN [graph |-> G, all_graphs |-> gs, raised |-> TRUE]
             ELSE LET gid == found[1]
                      insert_idx == get_topological_insert_id(G[gid], node.output)
                  IN  [graph |-> [G EXCEPT ![gid].node = Insert(@, insert_idx, node)],
                       all_graphs |-> gs, raised |-> FALSE]

\* add_initializer(tensor, graph_name): the tensor, given by its name, is
\* appended to the initializers of the primary or of the named graph.
add_initializer(G, cache, tensor, graph_name) ==
    IF graph_name = <<>> \/ graph_name[1] = G[Primary].name
    THEN [graph |-> [G EXCEPT ![Primary].initializer = Append(@, tensor)],
          all_graphs |-> cache, raised |-> FALSE]
    ELSE LET gs == graphs(G, cache)
             found == get_graph_by_name(G, gs, graph_name[1])
         IN  IF found = <<>>
             THEN [graph |-> G, all_graphs |-> gs, raised |-> TRUE]
             ELSE [graph |-> [G EXCEPT ![found[1]].initializer = Append(@, tensor)],
                   all_graphs |-> gs, raised |-> FALSE]

\* add_input(input, graph_name): the value info, given by its name, is
\* appended to the inputs of the primary or of the named graph.
add_input(G, cache, input, graph_name) ==
    IF graph_name = <<>> \/ graph_name[1] = G[Primary].name
    THEN [graph |-> [G EXCEPT ![Primary].input = Append(@, input)],
          all_graphs |-> cache, raised |-> FALSE]
    ELSE LET gs == graphs(G, cache)
             found == get_graph_by_name(G, gs, graph_name[1])
         IN  IF found = <<>>
             THEN [graph |-> G, all_graphs |-> gs, raised |-> TRUE]
             ELSE [graph |-> [G EXCEPT ![found[1]].input = Append(@, input)],
                   all_graphs |-> gs, raised |-> FALSE]

(***************************************************************************)
(* The value flow index.                                                   *)
(***************************************************************************)

\* name in input_name_to_nodes(): some node of all_nodes has the input name.
IsConsumed(all_nodes, name) == \E i \in 1..Len(all_nodes) : name \in Range(all_nodes[i].input)

\* name in output_name_to_node()
IsProduced(all_nodes, name) == \E i \in 1..Len(all_nodes) : name \in Range(all_nodes[i].output)

\* output_name_to_node()[name]: a later node overwrites an earlier one.
output_name_to_node(all_nodes, name) ==
    LET last == CHOOSE i \in 1..Len(all_nodes) :
                    /\ name \in Range(all_nodes[i].output)
                    /\ \A j \in (i + 1)..Len(all_nodes) : name \notin Range(all_nodes[j].output)
    IN  all_nodes[last]

\* The producers of the given input names, in input order, for the names
\* that have one.
ProducersOf(all_nodes, inputs) ==
    LET produced == SelectSeq(inputs, LAMBDA input : IsProduced(all_nodes, input))
    IN  [i \in 1..Len(produced) |-> output_name_to_node(all_nodes, produced[i])]

\* get_parents(node, output_name_to_node)
get_parents(all_nodes, node) == ProducersOf(all_nodes, node.input)

\* The loop of get_parent_subgraph_nodes: dq.pop() takes the last element,
\* dq.appendleft(x) puts x in front.
RECURSIVE ParentSubgraphLoop(_, _, _, _)
ParentSubgraphLoop(all_nodes, stop_nodes, dq, unique_nodes) ==
    IF dq = <<>> THEN unique_nodes
    ELSE LET current_node == dq[Len(dq)]
             rest == SubSeq(dq, 1, Len(dq) - 1)
         IN  IF current_node \in stop_nodes
             THEN ParentSubgraphLoop(all_nodes, stop_nodes, rest, unique_nodes)
             ELSE IF current_node \in Range(unique_nodes)
             THEN ParentSubgraphLoop(all_nodes, stop_nodes, rest, unique_nodes)
             ELSE ParentSubgraphLoop(all_nodes, stop_nodes,
                                     Reverse(ProducersOf(all_nodes, current_node.input)) \o rest,
                                     Append(unique_nodes, current_node))

\* get_parent_subgraph_nodes(node, stop_nodes, output_name_to_node)
get_parent_subgraph_nodes(all_nodes, node, stop_nodes) ==
    ParentSubgraphLoop(all_nodes, stop_nodes, get_parents(all_nodes, node), <<>>)

\* input_name_to_nodes()[name]: the consumers of the name in node order, a
\* node once for every input of it that has the name.
input_name_to_nodes(all_nodes, name) ==
    Concat([i \in 1..Len(all_nodes) |->
               [j \in 1..Cardinality({k \in 1..Len(all_nodes[i].input) :
                                        all_nodes[i].input[k] = name}) |-> all_nodes[i]]])

\* get_children(node, input_name_to_nodes)
get_children(all_nodes, node) ==
    Concat([i \in 1..Len(node.output) |-> input_name_to_nodes(all_nodes, node.output[i])])

(***************************************************************************)
(* is_safe_to_fuse_nodes(nodes_to_remove, keep_outputs, input_name_to_nodes,*)
(* output_name_to_node).  index_nodes are the nodes the supplied index     *)
(* input_name_to_nodes was built from; output_name_to_node is not read.    *)
(***************************************************************************)

\* Mutant of OutputIsSafe: keep_outputs is not consulted.
OutputIsSafe_IgnoringKeep(nodes_to_remove, keep_outputs, index_nodes, output_to_remove) ==
    \A impacted_node \in Range(input_name_to_nodes(index_nodes, output_to_remove)) :
        impacted_node \in Range(nodes_to_remove)

\* The body of the inner loop: the output does not make the call return False.
OutputIsSafe(nodes_to_remove, keep_outputs, index_nodes, output_to_remove) ==
    \/ output_to_remove \in keep_outputs
    \/ \A impacted_node \in Range(input_name_to_nodes(index_nodes, output_to_remove)) :
          impacted_node \in Range(nodes_to_remove)

is_safe_to_fuse_nodes(nodes_to_remove, keep_outputs, index_nodes) ==
    \A i \in 1..Len(nodes_to_remove) :
        \A j \in 1..Len(nodes_to_remove[i].output) :
            OutputIsSafe(nodes_to_remove, keep_outputs, index_nodes,
                         nodes_to_remove[i].output[j])

(***************************************************************************)
(* Parent matching.  An input index is <<i>> (0-based) or <<>> for None; a *)
(* matched node is <<node>> or <<>> for None.                              *)
(***************************************************************************)

\* get_parent(node, i, output_name_to_node)
get_parent(all_nodes, node, i) ==
    IF Len(node.input) <= i THEN <<>>
    ELSE IF ~IsProduced(all_nodes, node.input[i + 1]) THEN <<>>
    ELSE <<output_name_to_node(all_nodes, node.input[i + 1])>>

\* match_first_parent(node, parent_op_type, output_name_to_node, exclude):
\* the first input, left to right, whose producer has the operator type and
\* is not excluded.
match_first_parent(all_nodes, node, parent_op_type, exclude) ==
    LET hits == {i \in 1..Len(node.input) :
                    /\ IsProduced(all_nodes, node.input[i])
                    /\ output_name_to_node(all_nodes, node.input[i]).op_type = parent_op_type
                    /\ output_name_to_node(all_nodes, node.input[i]) \notin exclude}
    IN  IF hits = {} THEN [parent |-> <<>>, index |-> <<>>]
        ELSE LET i == CHOOSE i \in hits : \A j \in hits : i <= j
             IN  [parent |-> <<output_name_to_node(all_nodes, node.input[i])>>,
                  index |-> <<i - 1>>]

\* match_parent(node, parent_op_type, input_index, output_name_to_node,
\* exclude, return_indice): the matched parent and what is appended to
\* return_indice (an entry only when input_index is None).
match_parent(all_nodes, node, parent_op_type, input_index, exclude) ==
    IF input_index = <<>>
    THEN LET first == match_first_parent(all_nodes, node, parent_op_type, exclude)
         IN  [parent |-> first.parent, appended |-> <<first.index>>]
    ELSE IF input_index[1] >= Len(node.input)
    THEN [parent |-> <<>>, appended |-> <<>>]
    ELSE LET parent == get_parent(all_nodes, node, input_index[1])
         IN  IF /\ parent # <<>>
                /\ parent[1].op_type = parent_op_type
                /\ parent[1] \notin exclude
             THEN [parent |-> parent, appended |-> <<>>]
             ELSE [parent |-> <<>>, appended |-> <<>>]

\* Mutant of MatchPathLoop: at an unmatched hop the parents matched so far
\* are returned.
RECURSIVE MatchPathLoop_Partial(_, _, _, _, _, _)
MatchPathLoop_Partial(all_nodes, current_node, parent_op_types, parent_input_index, matched_parents, return_indice) ==
    IF parent_op_types = <<>>
    THEN [matched |-> TRUE, parents |-> matched_parents, return_indice |-> return_indice]
    ELSE LET m == match_parent(all_nodes, current_node, Head(parent_op_types),
                               Head(parent_input_index), {})
         IN  IF m.parent = <<>>
             THEN [matched |-> TRUE, parents |-> matched_parents,
                   return_indice |-> return_indice \o m.appended]
             ELSE MatchPathLoop_Partial(all_nodes, m.parent[1], Tail(parent_op_types),
                                        Tail(parent_input_index),
                                        Append(matched_parents, m.parent[1]),
                                        return_indice \o m.appended)

\* The loop of match_parent_path over the hops: matched is FALSE when the
\* call returns None, else parents is the returned list.
RECURSIVE MatchPathLoop(_, _, _, _, _, _)
MatchPathLoop(all_nodes, current_node, parent_op_types, parent_input_index, matched_parents, return_indice) ==
    IF parent_op_types = <<>>
    THEN [matched |-> TRUE, parents |-> matched_parents, return_indice |-> return_indice]
    ELSE LET m == match_parent(all_nodes, current_node, Head(parent_op_types),
                               Head(parent_input_index), {})
         IN  IF m.parent = <<>>
             THEN [matched |-> FALSE, parents |-> <<>>,
                   return_indice |-> return_indice \o m.appended]
             ELSE MatchPathLoop(all_nodes, m.parent[1], Tail(parent_op_types),
                                Tail(parent_input_index),
                                Append(matched_parents, m.parent[1]),
                                return_indice \o m.appended)

\* match_parent_path(node, parent_op_types, parent_input_index); the two
\* lists have the same length (the assertion of line 327).
match_parent_path(all_nodes, node, parent_op_types, parent_input_index) ==
    MatchPathLoop(all_nodes, node, parent_op_types, parent_input_index, <<>>, <<>>)

\* match_parent_paths(node, paths, output_name_to_node): a path is the pair
\* <<parent_op_types, parent_input_index>>.  `if matched:` holds for a list
\* that is neither None nor empty.  i is -1 and found FALSE for (-1, None, None).
RECURSIVE MatchPathsLoop(_, _, _, _)
MatchPathsLoop(all_nodes, node, paths, i) ==
    IF i >= Len(paths) THEN [i |-> -1, found |-> FALSE, matched |-> <<>>, return_indice |-> <<>>]
    ELSE LET r == match_parent_path(all_nodes, node, paths[i + 1][1], paths[i + 1][2])
         IN  IF r.matched /\ r.parents # <<>>
             THEN [i |-> i, found |-> TRUE, matched |-> r.parents,
                   return_indice |-> r.return_indice]
             ELSE MatchPathsLoop(all_nodes, node, paths, i + 1)

match_parent_paths(all_nodes, node, paths) == MatchPathsLoop(all_nodes, node, paths, 0)

(***************************************************************************)
(* create_node_name(op_type, name_prefix).  name_prefix is <<>> for None,  *)
(* else <<prefix>>.  A name is a string; prefix + str(suffix) is built     *)
(* with \o and ToString, and int(name[len(prefix):]) is read back as the   *)
(* number whose decimal form follows the prefix in the name.               *)
(***************************************************************************)
MaxSuffix == 2

\* The strings name_prefix.endswith("_") holds for, among the prefixes used.
EndsWithUnderscore(name_prefix) == \E stem \in {"Add", "Neg"} : name_prefix = stem \o "_"

\* Lines 584-587.
NamePrefix(op_type, name_prefix) ==
    IF name_prefix # <<>> /\ name_prefix # <<"">>
    THEN IF EndsWithUnderscore(name_prefix[1]) THEN name_prefix[1] ELSE name_prefix[1] \o "_"
    ELSE op_type \o "_"

\* The index of a node name under the prefix: {int(name[len(prefix):])} when
\* the name starts with the prefix and a number follows, {} when it does
\* not start with it or int() raises ValueError.
NameIndex(name, prefix) == {index \in 0..(MaxSuffix + 1) : name = prefix \o ToString(index)}

\* The scan of lines 594-600 over self.nodes().
ScannedSuffix(all_nodes, prefix) ==
    LET next == {index + 1 : index \in UNION {NameIndex(all_nodes[i].name, prefix) :
                                               i \in {j \in 1..Len(all_nodes) : all_nodes[j].name # ""}}}
    IN  IF next = {} THEN 0 ELSE CHOOSE m \in next : \A n \in next : n <= m

\* Lines 589-600: the suffix of the new name.
NewSuffix(G, cache, suffixes, prefix) ==
    IF prefix \in DOMAIN suffixes THEN suffixes[prefix] + 1
    ELSE ScannedSuffix(nodes(G, graphs(G, cache)), prefix)

\* create_node_name: the name returned, self._node_name_suffix and
\* self.all_graphs after the call (self.nodes() is called only for a prefix
\* not yet recorded).
create_node_name(G, cache, suffixes, op_type, name_prefix) ==
    LET prefix == NamePrefix(op_type, name_prefix)
        suffix == NewSuffix(G, cache, suffixes, prefix)
    IN  [name |-> prefix \o ToString(suffix),
         node_name_suffix |-> [p \in DOMAIN suffixes \cup {prefix} |->
                                  IF p = prefix THEN suffix ELSE suffixes[p]],
         all_graphs |-> IF prefix \in DOMAIN suffixes THEN cache ELSE graphs(G, cache)]

(***************************************************************************)
(* Constant resolution.  A tensor is the sequence of its elements (its     *)
(* size is the length); numbers are integers.  An optional tensor is <<>>  *)
(* for None, else <<tensor>>.  The 'value' attribute of a Constant node    *)
(* and the tensor of an initializer are given by name for the nodes and    *)
(* initializers of the constant pool.                                      *)
(***************************************************************************)
cP == Node("Constant_2", "Constant", <<>>, <<"p">>)
cQ == Node("Constant_3", "Constant", <<>>, <<"q">>)
cR == Node("Constant_4", "Constant", <<>>, <<"r">>)
cS == Node("Constant_5", "Constant", <<>>, <<"w">>)

ConstPool == {cP, cQ, cR, cS}

\* The tensor of the attribute named 'value' of a node; cS has no such
\* attribute (its value is a sparse_value).
ValueAttribute(node) ==
    CASE node.name = "Constant_2" -> <<<<2>>>>
      [] node.name = "Constant_3" -> <<<<3>>>>
      [] node.name = "Constant_4" -> <<<<2, 2>>>>
      [] OTHER -> <<>>

\* numpy_helper.to_array of the initializer of the name.
InitializerArray(name) == IF name = "w" THEN <<2>> ELSE <<3>>

\* get_nodes_by_op_type(op_type)
get_nodes_by_op_type(all_nodes, op_type) ==
    SelectSeq(all_nodes, LAMBDA node : node.op_type = op_type)

\* get_initializer(name): the name when a discovered graph has an
\* initializer of the name, else None.
get_initializer(G, gs, name) ==
    IF \E i \in 1..Len(gs) : name \in Range(G[gs[i]].initializer) THEN <<name>> ELSE <<>>

\* get_constant_value(output_name): the value of the first Constant node
\* whose first output is the name and which has a 'value' attribute, else
\* the array of the initializer of that name, else None.
get_constant_value(G, gs, output_name) ==
    LET constants == SelectSeq(get_nodes_by_op_type(nodes(G, gs), "Constant"),
                               LAMBDA node : /\ node.output[1] = output_name
                                             /\ ValueAttribute(node) # <<>>)
    IN  IF constants # <<>> THEN ValueAttribute(constants[1])
        ELSE IF get_initializer(G, gs, output_name) # <<>>
        THEN <<InitializerArray(output_name)>>
        ELSE <<>>

\* get_constant_input(node): the first input (0-based index) whose name has
\* a constant value, with the value; i is <<>> for (None, None).
get_constant_input(G, gs, node) ==
    LET constant == {i \in 1..Len(node.input) : get_constant_value(G, gs, node.input[i]) # <<>>}
    IN  IF constant = {} THEN [i |-> <<>>, value |-> <<>>]
        ELSE LET i == CHOOSE i \in constant : \A j \in constant : i <= j
             IN  [i |-> <<i - 1>>, value |-> get_constant_value(G, gs, node.input[i])]

Abs(x) == IF x < 0 THEN -x ELSE x

\* find_constant_input(node, expected_value, delta)
find_constant_input(G, gs, node, expected_value, delta) ==
    LET c == get_constant_input(G, gs, node)
    IN  IF /\ c.value # <<>>
           /\ Len(c.value[1]) = 1
           /\ Abs(c.value[1][1] - expected_value) < delta
        THEN c.i[1]
        ELSE -1

(***************************************************************************)
(* Graph maintenance: prune_graph, update_graph, remove_unused_constant.   *)
(***************************************************************************)
ControlFlowOps == {"Loop", "Scan", "If"}

\* Mutant of HasControlFlow: the If operator is left out of the list.
HasControlFlow_WithoutIf(g) ==
    \E i \in 1..Len(g.node) : g.node[i].op_type \in {"Loop", "Scan"}

\* The guard of prune_graph: some node of the primary graph is a Loop, a
\* Scan or an If.
HasControlFlow(g) == \E i \in 1..Len(g.node) : g.node[i].op_type \in ControlFlowOps

\* remove_unused_constant(): every Constant node whose first output no node
\* consumes is removed.
remove_unused_constant(G, gs) ==
    LET all_nodes == nodes(G, gs)
        unused_nodes == SelectSeq(all_nodes,
                            LAMBDA node : /\ node.op_type = "Constant"
                                          /\ ~IsConsumed(all_nodes, node.output[1]))
    IN  remove_nodes(G, gs, unused_nodes)

\* The names kept by update_graph: the inputs of the primary graph's nodes
\* other than Constant nodes.
remaining_input_names(g) ==
    UNION {Range(g.node[i].input) : i \in {j \in 1..Len(g.node) : g.node[j].op_type # "Constant"}}

\* update_graph(): drops the unused graph inputs and initializers of the
\* primary graph, then the unused constants; returns early on control flow.
update_graph(G, gs) ==
    IF \E i \in 1..Len(G[Primary].node) : G[Primary].node[i].op_type \in ControlFlowOps
    THEN G
    ELSE LET g == G[Primary]
             remaining == remaining_input_names(g)
             input == SelectSeq(g.input, LAMBDA name : name \in remaining)
             initializer == SelectSeq(g.initializer,
                                LAMBDA name : name \in remaining \/ name \in Range(g.output))
         IN  remove_unused_constant(
                 [G EXCEPT ![Primary].input = input, ![Primary].initializer = initializer],
                 gs)

\* The first loop of prune_graph: all_nodes collects, for each output to
\* retain that has a producer, the producer and its parent subgraph.
RECURSIVE RetainedNodes(_, _, _)
RetainedNodes(all_nodes, outputs, retained) ==
    IF outputs = <<>> THEN retained
    ELSE IF ~IsProduced(all_nodes, Head(outputs))
         THEN RetainedNodes(all_nodes, Tail(outputs), retained)
    ELSE LET last_node == output_name_to_node(all_nodes, Head(outputs))
         IN  IF last_node \in Range(retained)
             THEN RetainedNodes(all_nodes, Tail(outputs), retained)
             ELSE RetainedNodes(all_nodes, Tail(outputs),
                                retained \o <<last_node>>
                                \o get_parent_subgraph_nodes(all_nodes, last_node, {}))

\* prune_graph(outputs) past its guard: removes the nodes outside all_nodes,
\* the outputs not to retain and the graph inputs no node consumes, then
\* calls update_graph.
prune_graph_body(G, gs, outputs) ==
    LET retained == RetainedNodes(nodes(G, gs), outputs, <<>>)
        nodes_to_remove == SelectSeq(G[Primary].node, LAMBDA node : node \notin Range(retained))
        G1 == remove_nodes(G, gs, nodes_to_remove)
        output == SelectSeq(G1[Primary].output, LAMBDA name : name \in Range(outputs))
        input == SelectSeq(G1[Primary].input, LAMBDA name : IsConsumed(nodes(G1, gs), name))
    IN  update_graph([G1 EXCEPT ![Primary].output = output, ![Primary].input = input], gs)

\* prune_graph(outputs): returns at once when the primary graph has a control
\* flow node; otherwise self.graphs() is called (and cached) and the graph is
\* pruned.  The result is the graph objects and all_graphs after the call.
prune_graph(G, cache, outputs) ==
    IF HasControlFlow(G[Primary])
    THEN [graph |-> G, all_graphs |-> cache]
    ELSE LET gs == graphs(G, cache)
         IN  [graph |-> prune_graph_body(G, gs, outputs), all_graphs |-> gs]

(***************************************************************************)
(* Value flow over a node sequence, for stating the claims: a value edge   *)
(* is a non-empty name that one node outputs and another node inputs.      *)
(***************************************************************************)
ValueNames(names) == Range(names) \ {""}

Produces(p, n) == ValueNames(p.output) \cap ValueNames(n.input) # {}

\* The nodes of S from which n is reachable along value edges.
RECURSIVE AncestorsIn(_, _, _)
AncestorsIn(S, frontier, seen) ==
    LET parents == {p \in S : \E n \in frontier : Produces(p, n)} \ seen
    IN  IF parents = {} THEN seen ELSE AncestorsIn(S, parents, seen \cup parents)

Ancestors(S, n) == AncestorsIn(S, {n}, {})

HasCycle(S) == \E n \in S : n \in Ancestors(S, n)

\* Every non-empty input of every node has a producer: an initializer, a
\* graph input or a node of the graph.
WellFormed(g) ==
    \A n \in Range(g.node) :
        ValueNames(n.input) \subseteq
            Range(g.initializer) \cup Range(g.input)
            \cup UNION {ValueNames(p.output) : p \in Range(g.node)}

(***************************************************************************)
(* The nested graph Body, the body of the control flow node nL; it reads   *)
(* "k" from the enclosing graph.                                           *)
(***************************************************************************)
BodyGraph ==
    [name |-> "body", node |-> <<nN>>, input |-> <<>>, output |-> <<"n">>,
     initializer |-> <<>>]

NoCall == [op |-> "none"]

(***************************************************************************)
(* The topological sort applied to bounded primary graphs.                 *)
(***************************************************************************)
SortInputs == {<<"x">>, <<"x", "w">>}

InitSort ==
    /\ \E node \in DistinctSeqs(NodePool, MaxNodes), input \in SortInputs :
          /\ graph = [gid \in GraphIds |->
                        IF gid = Primary
                        THEN [name |-> "main", node |-> node, input |-> input,
                              output |-> <<>>, initializer |-> <<"w">>]
                        ELSE BodyGraph]
          /\ WellFormed(graph[Primary])
    /\ all_graphs = <<>>
    /\ ret = NoCall
    /\ FreshNaming

\* topological_sort(): sorts the primary graph only.
TopologicalSort ==
    LET r == graph_topological_sort(graph[Primary])
    IN  /\ graph' = [graph EXCEPT ![Primary].node = r.node]
        /\ ret' = [op |-> "topological_sort", raised |-> r.raised, emitted |-> r.emitted]
        /\ UNCHANGED all_graphs
        /\ UNCHANGED naming

NextSort == TopologicalSort

SpecSort == InitSort /\ [][NextSort]_vars

(***************************************************************************)
(* prune_graph applied to bounded primary graphs.  The declared outputs    *)
(* are values the graph's nodes produce; the outputs to retain are a       *)
(* sublist of the declared ones (the whole list is what outputs=None       *)
(* stands for).                                                            *)
(***************************************************************************)
MaxPruneNodes == 3
MaxOutputs == 2

ProducedNames(node) == UNION {ValueNames(node[i].output) : i \in 1..Len(node)}

SubLists(s) == {SelectSeq(s, LAMBDA x : x \in S) : S \in SUBSET Range(s)}

InitPrune ==
    /\ \E node \in DistinctSeqs(NodePool, MaxPruneNodes) :
       \E output \in DistinctSeqs(ProducedNames(node), MaxOutputs) :
          /\ graph = [gid \in GraphIds |->
                        IF gid = Primary
                        THEN [name |-> "main", node |-> node, input |-> <<"x">>,
                              output |-> output, initializer |-> <<"w">>]
                        ELSE BodyGraph]
          /\ WellFormed(graph[Primary])
    /\ all_graphs = <<>>
    /\ ret = NoCall
    /\ FreshNaming

PruneGraph(outputs) ==
    LET r == prune_graph(graph, all_graphs, outputs)
    IN  /\ graph' = r.graph
        /\ all_graphs' = r.all_graphs
        /\ ret' = [op |-> "prune_graph", outputs |-> outputs, before |-> graph]
        /\ UNCHANGED naming

NextPrune == \E outputs \in SubLists(graph[Primary].output) : PruneGraph(outputs)

SpecPrune == InitPrune /\ [][NextPrune]_vars

(***************************************************************************)
(* A rewrite session: nodes are added to and removed from the discovered   *)
(* graphs, and graphs are looked up by node.  It starts from a primary     *)
(* graph holding the control flow node nL; no graph grows beyond           *)
(* MaxSessionNodes nodes.                                                  *)
(***************************************************************************)
MaxSessionNodes == 2

SessionPool == {nK, nL, nN}

GraphNames == {<<>>, <<"main">>, <<"body">>, <<"then_branch">>}

Init ==
    /\ graph = [gid \in GraphIds |->
                  IF gid = Primary
                  THEN [name |-> "main", node |-> <<nL>>, input |-> <<"x">>,
                        output |-> <<"l">>, initializer |-> <<"w">>]
                  ELSE BodyGraph]
    /\ all_graphs = <<>>
    /\ ret = NoCall
    /\ FreshNaming

\* A node that holds a nested graph is added to the primary graph, and only
\* while no node of any graph holds that graph: the model keeps one holder
\* per nested graph object and no graph nested in itself.
AddNode(node, graph_name) ==
    LET r == add_node(graph, all_graphs, node, graph_name)
    IN  /\ \A gid \in GraphIds : Len(r.graph[gid].node) <= MaxSessionNodes
        /\ node.g # <<>> =>
              /\ \A gid \in GraphIds : \A n \in Range(graph[gid].node) : n.g = <<>>
              /\ graph_name \in {<<>>, <<"main">>}
        /\ graph' = r.graph
        /\ all_graphs' = r.all_graphs
        /\ ret' = [op |-> "add_node", node |-> node, graph_name |-> graph_name,
                   raised |-> r.raised]
        /\ UNCHANGED naming

\* remove_node(node); ret.held tells whether a discovered graph held the
\* node at the call.
RemoveNode(node) ==
    LET gs == graphs(graph, all_graphs)
    IN  /\ graph' = remove_node(graph, gs, node)
        /\ all_graphs' = gs
        /\ ret' = [op |-> "remove_node", node |-> node,
                   held |-> get_graph_by_node(graph, gs, node) # <<>>]
        /\ UNCHANGED naming

GetGraphByNode(node) ==
    LET gs == graphs(graph, all_graphs)
    IN  /\ all_graphs' = gs
        /\ ret' = [op |-> "get_graph_by_node", node |-> node,
                   value |-> get_graph_by_node(graph, gs, node)]
        /\ UNCHANGED graph
        /\ UNCHANGED naming

\* add_initializer(tensor, graph_name); no graph gets more than
\* MaxSessionNodes initializers.
AddInitializer(tensor, graph_name) ==
    LET r == add_initializer(graph, all_graphs, tensor, graph_name)
    IN  /\ \A gid \in GraphIds : Len(r.graph[gid].initializer) <= MaxSessionNodes
        /\ graph' = r.graph
        /\ all_graphs' = r.all_graphs
        /\ ret' = [op |-> "add_initializer", tensor |-> tensor, graph_name |-> graph_name,
                   raised |-> r.raised]
        /\ UNCHANGED naming

\* add_input(input, graph_name); no graph gets more than MaxSessionNodes
\* inputs.
AddInput(input, graph_name) ==
    LET r == add_input(graph, all_graphs, input, graph_name)
    IN  /\ \A gid \in GraphIds : Len(r.graph[gid].input) <= MaxSessionNodes
        /\ graph' = r.graph
        /\ all_graphs' = r.all_graphs
        /\ ret' = [op |-> "add_input", input |-> input, graph_name |-> graph_name,
                   raised |-> r.raised]
        /\ UNCHANGED naming

\* The caller drops the cache of graphs(): self.all_graphs = None.
DropCache ==
    /\ all_graphs # <<>>
    /\ all_graphs' = <<>>
    /\ ret' = [op |-> "drop_cache"]
    /\ UNCHANGED <<graph, naming>>

Next ==
    \/ \E node \in SessionPool, graph_name \in GraphNames : AddNode(node, graph_name)
    \/ \E node \in SessionPool : RemoveNode(node)
    \/ \E node \in SessionPool : GetGraphByNode(node)
    \/ DropCache

Spec == Init /\ [][Next]_vars

\* The mutations called with targets that may be absent: a node no graph
\* holds, a graph name no discovered graph has.
NextTargets ==
    \/ \E graph_name \in GraphNames : AddNode(nK, graph_name)
    \/ \E node \in {nK, nN} : RemoveNode(node)
    \/ \E graph_name \in GraphNames : AddInitializer("v", graph_name)
    \/ \E graph_name \in GraphNames : AddInput("v", graph_name)

SpecTargets == Init /\ [][NextTargets]_vars

(***************************************************************************)
(* Parent matching queries on bounded primary graphs.  The nodes of a      *)
(* graph stand in the order of PoolOrder; the index passed to the queries  *)
(* is the fresh one, output_name_to_node().  A hop is an operator type     *)
(* with an input index (<<>> for None); a path is the pair of lists        *)
(* <<parent_op_types, parent_input_index>>.                                *)
(***************************************************************************)
MaxMatchNodes == 4
MaxPathLen == 2
MaxPaths == 2

PoolOrder == <<nK, nZ, nA, nB, nC, nD, nE, nF, nL>>

Hops ==
    {<<"Add", <<>>>>, <<"Add", <<0>>>>, <<"Mul", <<0>>>>, <<"Split", <<>>>>,
     <<"Constant", <<>>>>, <<"Constant", <<1>>>>}

\* The paths of at most n hops.
RECURSIVE Paths(_)
Paths(n) ==
    IF n = 0 THEN {<<<<>>, <<>>>>}
    ELSE Paths(n - 1) \cup
         {<<Append(p[1], h[1]), Append(p[2], h[2])>> :
             p \in {q \in Paths(n - 1) : Len(q[1]) = n - 1}, h \in Hops}

InitMatch ==
    /\ \E S \in SUBSET NodePool :
          /\ Cardinality(S) <= MaxMatchNodes
          /\ graph = [gid \in GraphIds |->
                        IF gid = Primary
                        THEN [name |-> "main",
                              node |-> SelectSeq(PoolOrder, LAMBDA n : n \in S),
                              input |-> <<"x">>, output |-> <<>>,
                              initializer |-> <<"w">>]
                        ELSE BodyGraph]
          /\ WellFormed(graph[Primary])
    /\ all_graphs = <<>>
    /\ ret = NoCall
    /\ FreshNaming

MatchParentPath(node, path) ==
    LET gs == graphs(graph, all_graphs)
    IN  /\ all_graphs' = gs
        /\ ret' = [op |-> "match_parent_path", node |-> node,
                   parent_op_types |-> path[1], parent_input_index |-> path[2],
                   value |-> match_parent_path(nodes(graph, gs), node, path[1], path[2])]
        /\ UNCHANGED graph
        /\ UNCHANGED naming

MatchParentPaths(node, paths) ==
    LET gs == graphs(graph, all_graphs)
    IN  /\ all_graphs' = gs
        /\ ret' = [op |-> "match_parent_paths", node |-> node, paths |-> paths,
                   value |-> match_parent_paths(nodes(graph, gs), node, paths)]
        /\ UNCHANGED graph
        /\ UNCHANGED naming

\* The queries leave the graphs as they are: a behaviour issues one query, on
\* the model as constructed, from a node of a discovered graph.
NextMatch ==
    \/ /\ ret = NoCall
       /\ \E node \in Range(nodes(graph, graphs(graph, all_graphs))) :
          \E path \in Paths(MaxPathLen) : MatchParentPath(node, path)
    \/ /\ ret = NoCall
       /\ \E node \in Range(nodes(graph, graphs(graph, all_graphs))) :
          \E paths \in DistinctSeqs(Paths(1), MaxPaths) : MatchParentPaths(node, paths)

SpecMatch == InitMatch /\ [][NextMatch]_vars

(***************************************************************************)
(* is_safe_to_fuse_nodes asked on bounded primary graphs.  The nodes to    *)
(* remove are a sublist of the discovered nodes, keep_outputs holds at     *)
(* most one name, and the index is the fresh one or one built before a     *)
(* node was there.                                                         *)
(***************************************************************************)
\* s without its i-th element.
Without(s, i) == SubSeq(s, 1, i - 1) \o SubSeq(s, i + 1, Len(s))

KeepChoices(all_nodes) == {{}} \cup {{name} : name \in ProducedNames(all_nodes) \cup {""}}

IsSafeToFuseNodes(nodes_to_remove, keep_outputs, index_nodes) ==
    /\ all_graphs' = graphs(graph, all_graphs)
    /\ ret' = [op |-> "is_safe_to_fuse_nodes", nodes_to_remove |-> nodes_to_remove,
               keep_outputs |-> keep_outputs, index_nodes |-> index_nodes,
               value |-> is_safe_to_fuse_nodes(nodes_to_remove, keep_outputs, index_nodes)]
    /\ UNCHANGED graph
    /\ UNCHANGED naming

\* The query leaves the graphs as they are: a behaviour issues one, on the
\* model as constructed.
NextFuse ==
    /\ ret = NoCall
    /\ LET all_nodes == nodes(graph, graphs(graph, all_graphs))
       IN  \E nodes_to_remove \in SubLists(all_nodes), keep_outputs \in KeepChoices(all_nodes) :
           \E index_nodes \in {all_nodes} \cup {Without(all_nodes, i) : i \in 1..Len(all_nodes)} :
              IsSafeToFuseNodes(nodes_to_remove, keep_outputs, index_nodes)

SpecFuse == InitMatch /\ [][NextFuse]_vars

(***************************************************************************)
(* A naming session: names are created while nodes are added to and        *)
(* removed from the primary graph.  No suffix beyond MaxSuffix is created. *)
(***************************************************************************)
NamedPool == {nA, nD, nN}

\* The names of the nodes of the discovered graphs.
NodeNames(G, cache) == {n.name : n \in Range(nodes(G, graphs(G, cache)))}

CreateNodeName(op_type, name_prefix) ==
    LET r == create_node_name(graph, all_graphs, node_name_suffix, op_type, name_prefix)
    IN  /\ r.node_name_suffix[NamePrefix(op_type, name_prefix)] <= MaxSuffix
        /\ node_name_suffix' = r.node_name_suffix
        /\ all_graphs' = r.all_graphs
        /\ minted' = minted \cup {r.name}
        /\ ret' = [op |-> "create_node_name", op_type |-> op_type,
                   name_prefix |-> name_prefix, value |-> r.name,
                   present |-> NodeNames(graph, all_graphs), minted_before |-> minted]
        /\ UNCHANGED graph

NextNames ==
    \/ \E node \in NamedPool : AddNode(node, <<>>)
    \/ \E node \in NamedPool : RemoveNode(node)
    \/ \E op_type \in {"Add", "Neg"}, name_prefix \in {<<>>, <<"">>, <<"Add">>, <<"Add_">>} :
          CreateNodeName(op_type, name_prefix)

SpecNames == Init /\ [][NextNames]_vars

(***************************************************************************)
(* find_constant_input asked on bounded primary graphs of Constant nodes,  *)
(* for a node that reads up to MaxConstInputs of the names.                *)
(***************************************************************************)
MaxConstNodes == 2
MaxConstInputs == 2

ConstNames == {"p", "q", "r", "w", "x"}

\* The sequences of at most n elements of S.
RECURSIVE SeqsUpTo(_, _)
SeqsUpTo(S, n) ==
    IF n = 0 THEN {<<>>}
    ELSE SeqsUpTo(S, n - 1) \cup
         {Append(q, e) : q \in {t \in SeqsUpTo(S, n - 1) : Len(t) = n - 1}, e \in S}

InitConst ==
    /\ \E node \in DistinctSeqs(ConstPool, MaxConstNodes), initializer \in {<<>>, <<"w">>, <<"q">>} :
          graph = [gid \in GraphIds |->
                     IF gid = Primary
                     THEN [name |-> "main", node |-> node, input |-> <<"x">>,
                           output |-> <<>>, initializer |-> initializer]
                     ELSE BodyGraph]
    /\ all_graphs = <<>>
    /\ ret = NoCall
    /\ FreshNaming

FindConstantInput(node, expected_value, delta) ==
    LET gs == graphs(graph, all_graphs)
    IN  /\ all_graphs' = gs
        /\ ret' = [op |-> "find_constant_input", node |-> node,
                   expected_value |-> expected_value, delta |-> delta,
                   value |-> find_constant_input(graph, gs, node, expected_value, delta)]
        /\ UNCHANGED graph
        /\ UNCHANGED naming

\* The query leaves the graphs as they are: a behaviour issues one, on the
\* model as constructed.
NextConst ==
    /\ ret = NoCall
    /\ \E input \in SeqsUpTo(ConstNames, MaxConstInputs), expected_value \in {2, 3}, delta \in {1, 2} :
          FindConstantInput(Node("Add_0", "Add", input, <<"a">>), expected_value, delta)

SpecConst == InitConst /\ [][NextConst]_vars

(***************************************************************************)
(* The traversals, one loop iteration a step: get_children_subgraph_nodes, *)
(* get_parent_subgraph_nodes, find_first_child_by_type and                 *)
(* find_first_parent_by_type.  While a traversal runs, ret is its frame:   *)
(* the arguments, the deque dq, unique_nodes, and returned = FALSE.  The   *)
(* history fields expanded and processed list the nodes whose neighbours   *)
(* were put on dq and the nodes popped from dq.  The indexes are the fresh *)
(* ones.  A find_first traversal is followed for MaxWalkSteps iterations.  *)
(***************************************************************************)
MaxWalkSteps == 5

SubgraphOps == {"get_children_subgraph_nodes", "get_parent_subgraph_nodes"}

FindOps == {"find_first_child_by_type", "find_first_parent_by_type"}

WalkedNodes == nodes(graph, graphs(graph, all_graphs))

\* The neighbours a traversal puts on dq for a node: its children or its
\* parents.
Neighbours(op, node) ==
    IF op \in {"get_children_subgraph_nodes", "find_first_child_by_type"}
    THEN get_children(WalkedNodes, node)
    ELSE get_parents(WalkedNodes, node)

\* get_children_subgraph_nodes(root_node, stop_nodes) up to its loop; line
\* 433 raises KeyError when no node reads the first output of the root.
CallChildrenSubgraph(root_node, stop_nodes) ==
    /\ all_graphs' = graphs(graph, all_graphs)
    /\ ret' = IF ~IsConsumed(WalkedNodes, root_node.output[1])
              THEN [op |-> "get_children_subgraph_nodes", node |-> root_node,
                    stop_nodes |-> stop_nodes, returned |-> TRUE, raised |-> TRUE]
              ELSE [op |-> "get_children_subgraph_nodes", node |-> root_node,
                    stop_nodes |-> stop_nodes, returned |-> FALSE, raised |-> FALSE,
                    dq |-> input_name_to_nodes(WalkedNodes, root_node.output[1]),
                    unique_nodes |-> <<>>, expanded |-> <<>>]
    /\ UNCHANGED <<graph, naming>>

\* get_parent_subgraph_nodes(node, stop_nodes) up to its loop.
CallParentSubgraph(node, stop_nodes) ==
    /\ all_graphs' = graphs(graph, all_graphs)
    /\ ret' = [op |-> "get_parent_subgraph_nodes", node |-> node,
               stop_nodes |-> stop_nodes, returned |-> FALSE, raised |-> FALSE,
               dq |-> get_parents(WalkedNodes, node),
               unique_nodes |-> <<>>, expanded |-> <<>>]
    /\ UNCHANGED <<graph, naming>>

\* Mutant of InStopNodes: the stop nodes are not consulted.
InStopNodes_Never(current_node, stop_nodes) == FALSE

\* current_node in stop_nodes
InStopNodes(current_node, stop_nodes) == current_node \in stop_nodes

\* One iteration of the loop of the two subgraph traversals, or the return
\* once dq is empty.  dq.pop() takes the last element; dq.appendleft puts
\* each neighbour in front.
SubgraphStep ==
    /\ ret.op \in SubgraphOps
    /\ ~ret.returned
    /\ IF ret.dq = <<>>
       THEN ret' = [ret EXCEPT !.returned = TRUE] @@ [value |-> ret.unique_nodes]
       ELSE LET current_node == ret.dq[Len(ret.dq)]
                rest == SubSeq(ret.dq, 1, Len(ret.dq) - 1)
            IN  IF InStopNodes(current_node, ret.stop_nodes)
                   \/ current_node \in Range(ret.unique_nodes)
                THEN ret' = [ret EXCEPT !.dq = rest]
                ELSE ret' = [ret EXCEPT
                               !.dq = Reverse(Neighbours(ret.op, current_node)) \o rest,
                               !.unique_nodes = Append(@, current_node),
                               !.expanded = Append(@, current_node)]
    /\ UNCHANGED <<graph, all_graphs, naming>>

\* find_first_child_by_type / find_first_parent_by_type up to the loop.
CallFindFirst(op, node, type, recursive) ==
    /\ all_graphs' = graphs(graph, all_graphs)
    /\ ret' = [op |-> op, node |-> node, type |-> type, recursive |-> recursive,
               returned |-> FALSE, dq |-> Neighbours(op, node), processed |-> <<>>]
    /\ UNCHANGED <<graph, naming>>

\* One iteration of the loop of find_first_child_by_type or
\* find_first_parent_by_type, or the return of None once dq is empty; value
\* is <<>> for None, else <<node>>.
FindStep ==
    /\ ret.op \in FindOps
    /\ ~ret.returned
    /\ Len(ret.processed) < MaxWalkSteps
    /\ IF ret.dq = <<>>
       THEN ret' = [ret EXCEPT !.returned = TRUE] @@ [value |-> <<>>]
       ELSE LET current_node == ret.dq[Len(ret.dq)]
                rest == SubSeq(ret.dq, 1, Len(ret.dq) - 1)
            IN  IF current_node.op_type = ret.type
                THEN ret' = [ret EXCEPT !.returned = TRUE, !.dq = rest,
                                        !.processed = Append(@, current_node)]
                            @@ [value |-> <<current_node>>]
                ELSE ret' = [ret EXCEPT
                               !.dq = IF ret.recursive
                                      THEN Reverse(Neighbours(ret.op, current_node)) \o rest
                                      ELSE rest,
                               !.processed = Append(@, current_node)]
    /\ UNCHANGED <<graph, all_graphs, naming>>

WalkTypes == {"Split", "Constant", "Relu"}

\* The stop lists of a call: none or one node of the graphs.
StopChoices == {{}} \cup {{n} : n \in Range(WalkedNodes)}

\* A behaviour runs one traversal, on the model as constructed.
NextWalk ==
    \/ /\ ret = NoCall
       /\ \E root_node \in Range(WalkedNodes), stop_nodes \in StopChoices :
             CallChildrenSubgraph(root_node, stop_nodes)
    \/ /\ ret = NoCall
       /\ \E node \in Range(WalkedNodes), stop_nodes \in StopChoices :
             CallParentSubgraph(node, stop_nodes)
    \/ SubgraphStep
    \/ /\ ret = NoCall
       /\ \E op \in FindOps, node \in Range(WalkedNodes), type \in WalkTypes,
             recursive \in BOOLEAN : CallFindFirst(op, node, type, recursive)
    \/ FindStep

SpecWalk == InitMatch /\ [][NextWalk]_vars

\* The loop of a subgraph traversal goes on while it can.
SpecWalkLive == SpecWalk /\ WF_vars(SubgraphStep)

(***************************************************************************)
(* Claims about the topological sort, checked under SpecSort.              *)
(***************************************************************************)
Sorted == ret.op = "topological_sort" /\ ~ret.raised

\* C1: after a successful sort, every node that outputs a non-empty input
\* name of another node stands before that node.
C1_ProducersStandEarlier ==
    Sorted =>
        LET node == graph[Primary].node
        IN  \A i \in 1..Len(node), j \in 1..Len(node) :
                (j # i /\ Produces(node[j], node[i])) => j < i

\* C2: the sort raises exactly when it emitted fewer nodes than the graph
\* has, and exactly when the value edges of the graph's nodes form a cycle.
C2_RaisesIffCycle ==
    ret.op = "topological_sort" =>
        /\ ret.raised <=> Len(ret.emitted) # Len(graph[Primary].node)
        /\ ret.raised <=> HasCycle(Range(graph[Primary].node))

\* C3: a node is emitted only when each of its non-empty inputs is an
\* initializer, a graph input or an output of a node emitted before it.
C3_EmittedOnlyWhenResolved ==
    ret.op = "topological_sort" =>
        \A i \in 1..Len(ret.emitted) :
            ValueNames(ret.emitted[i].input) \subseteq
                Range(graph[Primary].initializer) \cup Range(graph[Primary].input)
                \cup UNION {ValueNames(ret.emitted[j].output) : j \in 1..(i - 1)}

\* C4: sorting the node sequence a successful sort produced succeeds and
\* leaves the order as it is.
C4_SortIdempotent ==
    Sorted =>
        LET again == graph_topological_sort(graph[Primary])
        IN  ~again.raised /\ again.node = graph[Primary].node

C4_Witness ==
    /\ Sorted
    /\ {nZ, nA, nC} \subseteq Range(graph[Primary].node)

(***************************************************************************)
(* Claims about prune_graph, checked under SpecPrune.  ret.before holds    *)
(* the graph objects at the call.                                          *)
(***************************************************************************)
\* The primary graph at the call held a Loop, Scan or If node.
CalledWithControlFlow ==
    \E n \in Range(ret.before[Primary].node) : n.op_type \in {"Loop", "Scan", "If"}

Pruned == ret.op = "prune_graph" /\ ~CalledWithControlFlow

\* The nodes of the primary graph at the call that produce a retained output.
RetainedProducers ==
    {n \in Range(ret.before[Primary].node) : ValueNames(n.output) \cap Range(ret.outputs) # {}}

\* The producers of the retained outputs and all their ancestors.
Live ==
    RetainedProducers \cup
    UNION {Ancestors(Range(ret.before[Primary].node), n) : n \in RetainedProducers}

\* C8: after prune_graph on a graph without control flow node, the producer
\* of every retained output and all its ancestors are still in the graph.
C8_LiveNodesRemain == Pruned => Live \subseteq Range(graph[Primary].node)

\* C9: after prune_graph on a graph without control flow node, every node
\* left in the primary graph produces a retained output or is an ancestor
\* of a node that does.
C9_OnlyLiveNodesRemain == Pruned => Range(graph[Primary].node) \subseteq Live

\* C10: prune_graph on a primary graph with a control flow node changes no
\* graph.
C10_ControlFlowNoMutation ==
    (ret.op = "prune_graph" /\ CalledWithControlFlow) => graph = ret.before

\* A call on a graph with an If node that declares an output the call does
\* not retain.
C10_Witness ==
    /\ ret.op = "prune_graph"
    /\ nL \in Range(ret.before[Primary].node)
    /\ ret.before[Primary].output = <<"l", "k">>
    /\ ret.outputs = <<"l">>
    /\ graph = ret.before

(***************************************************************************)
(* Claims about the node mutations, checked under Spec.                    *)
(***************************************************************************)

\* C5: after remove_node(n) of a node a discovered graph held,
\* get_graph_by_node(n) returns None.
C5_RemovedNodeNotFound ==
    (ret.op = "remove_node" /\ ret.held) =>
        get_graph_by_node(graph, graphs(graph, all_graphs), ret.node) = <<>>

(***************************************************************************)
(* Claims about parent matching, checked under SpecMatch.                  *)
(***************************************************************************)
\* The nodes the index of the call was built from.
QueriedNodes == Range(nodes(graph, graphs(graph, all_graphs)))

\* Node p outputs the value at position i (1-based) of cur's inputs.
Feeds(p, cur, i) ==
    /\ p \in QueriedNodes
    /\ i \in 1..Len(cur.input)
    /\ cur.input[i] \in Range(p.output)

\* The hop from cur with the operator type and the input index finds p: at
\* the index when one is given, else at the first input a node of the type
\* feeds.
HopFinds(cur, op_type, idx, p) ==
    /\ p.op_type = op_type
    /\ IF idx # <<>> THEN Feeds(p, cur, idx[1] + 1)
       ELSE \E i \in 1..Len(cur.input) :
               /\ Feeds(p, cur, i)
               /\ \A j \in 1..(i - 1) :
                     ~\E q \in QueriedNodes : q.op_type = op_type /\ Feeds(q, cur, j)

\* The chains of nodes in which every hop of the path of the call, taken
\* from the node found at the hop before, finds the next node.
MatchingChains ==
    {c \in [1..Len(ret.parent_op_types) -> QueriedNodes] :
        \A i \in 1..Len(ret.parent_op_types) :
            HopFinds(IF i = 1 THEN ret.node ELSE c[i - 1],
                     ret.parent_op_types[i], ret.parent_input_index[i], c[i])}

FullMatches ==
    {i \in 1..Len(ret.paths) :
        match_parent_path(nodes(graph, graphs(graph, all_graphs)), ret.node,
                          ret.paths[i][1], ret.paths[i][2]).matched}

\* C7: match_parent_paths returns the index and the list of the first
\* candidate for which match_parent_path does not return None, and -1 exactly
\* when there is no such candidate.
C7_FirstFullMatch ==
    ret.op = "match_parent_paths" =>
        IF FullMatches = {} THEN ret.value.i = -1
        ELSE LET first == CHOOSE i \in FullMatches : \A j \in FullMatches : i <= j
             IN  /\ ret.value.i = first - 1
                 /\ ret.value.found
                 /\ ret.value.matched =
                      match_parent_path(nodes(graph, graphs(graph, all_graphs)), ret.node,
                                        ret.paths[first][1], ret.paths[first][2]).parents

(***************************************************************************)
(* Claims about is_safe_to_fuse_nodes, checked under SpecFuse.             *)
(***************************************************************************)
\* Some output of a node to remove, not to keep, is an input of an indexed
\* node that is not to remove.
LiveConsumerOutside ==
    \E n \in Range(ret.nodes_to_remove) :
    \E o \in Range(n.output) \ ret.keep_outputs :
    \E c \in Range(ret.index_nodes) :
        o \in Range(c.input) /\ c \notin Range(ret.nodes_to_remove)

\* The nodes left once remove_nodes has removed the nodes to remove.
LeftAfterFusion ==
    LET gs == graphs(graph, all_graphs)
    IN  Range(nodes(remove_nodes(graph, gs, ret.nodes_to_remove), gs))

\* C11: is_safe_to_fuse_nodes returns False exactly when an output of a node
\* to remove, outside keep_outputs, has in the supplied index a consumer that
\* is not to remove; when it returns True on the fresh index, no node left
\* after the removal reads a removed output outside keep_outputs.
C11_SafeIffNoLiveConsumer ==
    ret.op = "is_safe_to_fuse_nodes" =>
        /\ ret.value = ~LiveConsumerOutside
        /\ (ret.value /\ ret.index_nodes = nodes(graph, graphs(graph, all_graphs))) =>
              \A n \in Range(ret.nodes_to_remove) :
              \A o \in Range(n.output) \ ret.keep_outputs :
              \A m \in LeftAfterFusion : o \notin Range(m.input)

\* A call that returns True although a node that stays reads an output of a
\* node to remove: the output is in keep_outputs.
C11_Witness ==
    /\ ret.op = "is_safe_to_fuse_nodes"
    /\ ret.value
    /\ ret.index_nodes = nodes(graph, graphs(graph, all_graphs))
    /\ \E n \in Range(ret.nodes_to_remove) :
       \E o \in Range(n.output) \cap ret.keep_outputs :
       \E c \in Range(ret.index_nodes) \ Range(ret.nodes_to_remove) : o \in Range(c.input)

(***************************************************************************)
(* Claims about create_node_name, checked under SpecNames.                 *)
(***************************************************************************)
\* C12: every name create_node_name returns differs from the name of every
\* node of the discovered graphs at the call and from every name it returned
\* earlier in the session.
C12_MintedNameIsNew ==
    ret.op = "create_node_name" =>
        /\ ret.value \notin ret.present
        /\ ret.value \notin ret.minted_before

(***************************************************************************)
(* Claims about constant resolution, checked under SpecConst.              *)
(***************************************************************************)
\* The input indices (0-based) of the node of the call whose name resolves
\* to a single scalar within the tolerance of the expected value.
MatchingConstantInputs ==
    LET gs == graphs(graph, all_graphs)
    IN  {i \in 0..(Len(ret.node.input) - 1) :
            LET value == get_constant_value(graph, gs, ret.node.input[i + 1])
            IN  /\ value # <<>>
                /\ Len(value[1]) = 1
                /\ Abs(value[1][1] - ret.expected_value) < ret.delta}

\* C13: find_constant_input returns the index of an input that resolves to
\* a single scalar within the tolerance of the expected value whenever the
\* node has such an input, and -1 exactly when it has none.
C13_FindsMatchingConstant ==
    ret.op = "find_constant_input" =>
        IF MatchingConstantInputs = {} THEN ret.value = -1
        ELSE ret.value \in MatchingConstantInputs

(***************************************************************************)
(* Claims about the traversals, checked under SpecWalk and SpecWalkLive.   *)
(***************************************************************************)
\* The nodes outside the stop nodes one edge forward (a consumer of an
\* output of n) or backward (a producer of an input of n) from n.
EdgeFrom(forward, n) ==
    {m \in Range(WalkedNodes) \ ret.stop_nodes :
        IF forward THEN Range(n.output) \cap Range(m.input) # {}
                   ELSE Range(m.output) \cap Range(n.input) # {}}

\* The nodes reachable from the nodes of S along edges, S included.
RECURSIVE ReachedFrom(_, _)
ReachedFrom(forward, S) ==
    LET more == S \cup UNION {EdgeFrom(forward, n) : n \in S}
    IN  IF more = S THEN S ELSE ReachedFrom(forward, more)

\* The nodes reachable from the root of the call along a path of one edge
\* or more that passes through no stop node.
Reachable(forward) == ReachedFrom(forward, EdgeFrom(forward, ret.node))

\* C14: get_children_subgraph_nodes returns the nodes reachable forward
\* from the root through no stop node (none when the root has no consumer),
\* and get_parent_subgraph_nodes those reachable backward.
C14_SubgraphIsReachableSet ==
    (ret.op \in SubgraphOps /\ ret.returned) =>
        /\ ~ret.raised
        /\ Range(ret.value) = Reachable(ret.op = "get_children_subgraph_nodes")

NoDuplicate(s) == \A i, j \in 1..Len(s) : s[i] = s[j] => i = j

\* C15 (each node at most once): a find_first_child_by_type or
\* find_first_parent_by_type traversal processes no node twice.
C15_FindProcessesNodeOnce ==
    ret.op \in FindOps => NoDuplicate(ret.processed)

\* C16, the state part: a subgraph traversal expands no node twice, and the
\* collection it returns holds no node twice and no stop node.
SubgraphWalkIsSound ==
    ret.op \in SubgraphOps /\ ~ret.raised =>
        /\ NoDuplicate(ret.expanded)
        /\ ret.returned =>
              /\ NoDuplicate(ret.value)
              /\ Range(ret.value) \cap ret.stop_nodes = {}

\* C16: get_children_subgraph_nodes and get_parent_subgraph_nodes terminate
\* on every node set, cyclic or not; each node is expanded at most once, and
\* the returned collection holds no node twice and no stop node.
C16_SubgraphWalkTerminates ==
    /\ []SubgraphWalkIsSound
    /\ (ret.op \in SubgraphOps) ~> (ret.op \in SubgraphOps /\ ret.returned)

\* A traversal over the cycle of Add_1 and Mul_1 has returned, with a stop
\* node given.
C16_Witness ==
    /\ ret.op \in SubgraphOps
    /\ ret.returned
    /\ ~ret.raised
    /\ {nD, nE} \subseteq Range(ret.value)
    /\ ret.stop_nodes # {}

(***************************************************************************)
(* Claims about add_node and the absent targets, checked under Spec and    *)
(* SpecTargets.  In a step, the unprimed variables are the state at the    *)
(* call and ret' is the call.                                              *)
(***************************************************************************)
\* s2 is s with x put in at some position i (0-based), nothing else changed.
InsertedAt(s, s2, x, i) ==
    /\ Len(s2) = Len(s) + 1
    /\ i \in 0..Len(s)
    /\ s2[i + 1] = x
    /\ \A j \in 1..Len(s) : s2[IF j <= i THEN j ELSE j + 1] = s[j]

\* The positions (1-based) of the nodes of a node list that read an output
\* of n.
ConsumersOf(node_list, n) ==
    {j \in 1..Len(node_list) : Range(node_list[j].input) \cap Range(n.output) # {}}

\* The step is a call of add_node that did not raise.
AddNodeStep == ret'.op = "add_node" /\ ~ret'.raised

\* The effect C17 gives for add_node(n, graph_name) on the graphs.
AddNodePlacement ==
    LET n == ret'.node
        graph_name == ret'.graph_name
    IN  IF graph_name = <<>> \/ graph_name[1] = graph[Primary].name
        THEN graph' = [graph EXCEPT ![Primary].node = Append(@, n)]
        ELSE \E gid \in Range(graphs(graph, all_graphs)) :
                /\ graph[gid].name = graph_name[1]
                /\ \A other \in GraphIds \ {gid} : graph'[other] = graph[other]
                /\ graph'[gid] = [graph[gid] EXCEPT !.node = graph'[gid].node]
                /\ \E i \in 0..Len(graph[gid].node) :
                      /\ InsertedAt(graph[gid].node, graph'[gid].node, n, i)
                      /\ IF ConsumersOf(graph[gid].node, n) = {}
                         THEN i = Len(graph[gid].node)
                         ELSE /\ i + 1 \in ConsumersOf(graph[gid].node, n)
                              /\ \A j \in ConsumersOf(graph[gid].node, n) : i < j

AbsentTargetStep ==
    \/ ret'.op = "remove_node" /\ ~ret'.held
    \/ /\ ret'.op \in {"add_node", "add_initializer", "add_input"}
       /\ ret'.graph_name # <<>>
       /\ \A gid \in Range(graphs(graph, all_graphs)) : graph[gid].name # ret'.graph_name[1]

\* C18: a mutation on an absent target raises nothing and leaves every
\* graph unchanged.
C18_AbsentTargetIsNoOp ==
    [][AbsentTargetStep =>
          /\ ret'.op # "remove_node" => ~ret'.raised
          /\ graph' = graph]_vars

(***************************************************************************)
(* Claims about the cache of graphs(), checked under Spec.                 *)
(***************************************************************************)
\* The graphs reached from the primary graph through the nodes' graph
\* attributes.
RECURSIVE NestedFrom(_)
NestedFrom(S) ==
    LET more == S \cup UNION {Range(NestedGraphs(graph[gid])) : gid \in S}
    IN  IF more = S THEN S ELSE NestedFrom(more)

\* C19, the state part: the materialised collection starts with the primary
\* graph, and get_graph_by_node answers from the collection as
\* materialised: a graph outside it is not seen, a graph in it is.
CacheAnswers ==
    /\ all_graphs # <<>> => all_graphs[1] = Primary
    /\ ret.op = "get_graph_by_node" =>
          /\ ret.value # <<>> =>
                /\ ret.value[1] \in Range(all_graphs)
                /\ ret.node \in Range(graph[ret.value[1]].node)
          /\ ret.value = <<>> =>
                \A gid \in Range(all_graphs) : ret.node \notin Range(graph[gid].node)

\* C19: once graphs() has materialised the collection, every later call
\* leaves it as it is, whatever was mutated, until the caller drops the
\* cache; a materialisation finds the graphs reachable then.
C19_CacheStableUntilDropped ==
    /\ []CacheAnswers
    /\ [][(all_graphs # <<>> /\ ret'.op # "drop_cache") => all_graphs' = all_graphs]_vars
    /\ [][(all_graphs = <<>> /\ all_graphs' # <<>>) =>
             Range(all_graphs') = NestedFrom({Primary})]_vars

\* The If node was added after the collection was materialised without it:
\* the node of its body graph is not found.
C19_Witness ==
    /\ all_graphs = <<Primary>>
    /\ nL \in Range(graph[Primary].node)
    /\ ret.op = "get_graph_by_node"
    /\ ret.node = nN
    /\ nN \in Range(graph[Body].node)
    /\ ret.value = <<>>

(***************************************************************************)
(* convert_model_float32_to_float16, the conversion done by this file      *)
(* (lines 523-571), which runs when the installed onnxconverter_common is  *)
(* not newer than 1.7.0.  The primary graph carries, next to the names of  *)
(* its inputs, outputs and initializers, their element types, position by  *)
(* position; a node carries its 'to' and the data type of its 'value'      *)
(* attribute, each empty when the node has no such attribute.              *)
(***************************************************************************)
\* TensorProto.FLOAT, TensorProto.FLOAT16 and an element type that is
\* neither.
FLOAT == 1
FLOAT16 == 10
INT64 == 7

\* replace_node_input(node, old_input_name, new_input_name)
replace_node_input(node, old_input_name, new_input_name) ==
    [node EXCEPT !.input = [j \in 1..Len(@) |->
                               IF @[j] = old_input_name THEN new_input_name ELSE @[j]]]

\* replace_input_of_all_nodes: over the nodes of the primary graph only.
replace_input_of_all_nodes(g, old_input_name, new_input_name) ==
    [g EXCEPT !.node = [i \in 1..Len(@) |->
                           replace_node_input(@[i], old_input_name, new_input_name)]]

\* replace_node_output(node, old_output_name, new_output_name)
replace_node_output(node, old_output_name, new_output_name) ==
    [node EXCEPT !.output = [j \in 1..Len(@) |->
                                IF @[j] = old_output_name THEN new_output_name ELSE @[j]]]

\* replace_output_of_all_nodes: over the nodes of the primary graph only.
replace_output_of_all_nodes(g, old_output_name, new_output_name) ==
    [g EXCEPT !.node = [i \in 1..Len(@) |->
                           replace_node_output(@[i], old_output_name, new_output_name)]]

\* Lines 526-529: every float32 initializer becomes float16.
ConvertInitializers(g) ==
    [g EXCEPT !.initializer_data_type =
                 [i \in 1..Len(@) |-> IF @[i] = FLOAT THEN FLOAT16 ELSE @[i]]]

\* Lines 531-541: the float32 'value' of a Constant or ConstantOfShape node
\* becomes float16, and a Cast to float32 becomes a Cast to float16.
ConvertNode(node) ==
    LET valued == IF /\ node.op_type \in {"Constant", "ConstantOfShape"}
                     /\ node.value_type = <<FLOAT>>
                  THEN [node EXCEPT !.value_type = <<FLOAT16>>]
                  ELSE node
    IN  IF valued.op_type = "Cast" /\ valued.to = <<FLOAT>>
        THEN [valued EXCEPT !.to = <<FLOAT16>>]
        ELSE valued

ConvertNodes(g) == [g EXCEPT !.node = [i \in 1..Len(@) |-> ConvertNode(@[i])]]

\* change_input_output_float32_to_float16: the model is rebuilt around a
\* graph of a new name whose float32 inputs and outputs are float16.
change_input_output_float32_to_float16(g) ==
    [g EXCEPT !.name = "float16 inputs and outputs",
              !.input_elem_type = [i \in 1..Len(@) |-> IF @[i] = FLOAT THEN FLOAT16 ELSE @[i]],
              !.output_elem_type = [i \in 1..Len(@) |-> IF @[i] = FLOAT THEN FLOAT16 ELSE @[i]]]

\* helper.make_node('Cast', inputs=[cast_input], outputs=[cast_output])
\* with the attribute 'to'.
CastNode(cast_input, cast_output, to) ==
    [name |-> "", op_type |-> "Cast", input |-> <<cast_input>>, output |-> <<cast_output>>,
     g |-> <<>>, to |-> <<to>>, value_type |-> <<>>]

\* Lines 549-560, from the i-th graph input on.  G is the graphs, cache the
\* discovered graphs.
RECURSIVE CastInputs(_, _, _)
CastInputs(G, cache, i) ==
    IF i > Len(G[Primary].input) THEN G
    ELSE IF G[Primary].input_elem_type[i] # FLOAT THEN CastInputs(G, cache, i + 1)
    ELSE IF get_initializer(G, cache, G[Primary].input[i]) # <<>>
    THEN CastInputs([G EXCEPT ![Primary].input_elem_type[i] = FLOAT16], cache, i + 1)
    ELSE LET cast_input == G[Primary].input[i]
             cast_output == G[Primary].input[i] \o "_float16"
             replaced == [G EXCEPT ![Primary] =
                             replace_input_of_all_nodes(@, cast_input, cast_output)]
             cast_node == CastNode(cast_input, cast_output, FLOAT16)
         IN  CastInputs(add_node(replaced, cache, cast_node, <<>>).graph, cache, i + 1)

\* Lines 563-571, from the i-th graph output on.
RECURSIVE CastOutputs(_, _, _)
CastOutputs(G, cache, i) ==
    IF i > Len(G[Primary].output) THEN G
    ELSE IF G[Primary].output_elem_type[i] # FLOAT THEN CastOutputs(G, cache, i + 1)
    ELSE LET cast_input == G[Primary].output[i] \o "_float16"
             cast_output == G[Primary].output[i]
             replaced == [G EXCEPT ![Primary] =
                             replace_input_of_all_nodes(
                                 replace_output_of_all_nodes(@, cast_output, cast_input),
                                 cast_output, cast_input)]
             cast_node == CastNode(cast_input, cast_output, FLOAT)
         IN  CastOutputs(add_node(replaced, cache, cast_node, <<>>).graph, cache, i + 1)

\* The graph inputs declared float32, the only ones get_initializer is
\* called for.
HasFloatInput(g) == \E i \in 1..Len(g.input) : g.input_elem_type[i] = FLOAT

\* convert_model_float32_to_float16(cast_input_output): the graphs after
\* the call and the cache, which only get_initializer materialises.
convert_model_float32_to_float16(G, cache, cast_input_output) ==
    LET converted == [G EXCEPT ![Primary] = ConvertNodes(ConvertInitializers(@))]
        gs == graphs(converted, cache)
    IN  IF ~cast_input_output
        THEN [graph |-> [converted EXCEPT ![Primary] = change_input_output_float32_to_float16(@)],
              all_graphs |-> cache]
        ELSE [graph |-> CastOutputs(CastInputs(converted, gs, 1), gs, 1),
              all_graphs |-> IF HasFloatInput(converted[Primary]) THEN gs ELSE cache]

MaxFloatNodes == 2

ElemTypes == {FLOAT, FLOAT16, INT64}

\* The nodes a graph to convert is made of.
fA == [name |-> "Add_0", op_type |-> "Add", input |-> <<"x", "w">>, output |-> <<"y">>,
       g |-> <<>>, to |-> <<>>, value_type |-> <<>>]
fC == [name |-> "Cast_0", op_type |-> "Cast", input |-> <<"x">>, output |-> <<"c">>,
       g |-> <<>>, to |-> <<FLOAT>>, value_type |-> <<>>]
fK == [name |-> "Constant_1", op_type |-> "Constant", input |-> <<>>, output |-> <<"k">>,
       g |-> <<>>, to |-> <<>>, value_type |-> <<FLOAT>>]
fM == [name |-> "Mul_0", op_type |-> "Mul", input |-> <<"c", "k">>, output |-> <<"y">>,
       g |-> <<>>, to |-> <<>>, value_type |-> <<>>]
\* An If node that holds the nested graph, and the node of that graph, which
\* reads the graph input x of the primary graph.
fL == [name |-> "If_0", op_type |-> "If", input |-> <<"w">>, output |-> <<"l">>,
       g |-> <<Body>>, to |-> <<>>, value_type |-> <<>>]
fN == [name |-> "Neg_1", op_type |-> "Neg", input |-> <<"x">>, output |-> <<"n">>,
       g |-> <<>>, to |-> <<>>, value_type |-> <<>>]
FloatPool == {fA, fC, fK, fM, fL}

FloatBody ==
    [name |-> "body", node |-> <<fN>>, input |-> <<>>, output |-> <<"n">>,
     initializer |-> <<>>]

\* A model whose primary graph has the inputs x and w and the output y, of
\* any element types, up to MaxFloatNodes nodes, and no initializer or one
\* that bears the name of an input.  The nested graph belongs to the model
\* when the If node is among the nodes.
InitFloat ==
    /\ \E node \in DistinctSeqs(FloatPool, MaxFloatNodes),
          input_elem_type \in [1..2 -> ElemTypes],
          output_elem_type \in [1..1 -> ElemTypes],
          initializer \in {<<>>, <<"w">>, <<"x">>},
          data_type \in {FLOAT, INT64} :
          graph = [gid \in GraphIds |->
                     IF gid = Primary
                     THEN [name |-> "main", node |-> node,
                           input |-> <<"x", "w">>, input_elem_type |-> input_elem_type,
                           output |-> <<"y">>, output_elem_type |-> output_elem_type,
                           initializer |-> initializer,
                           initializer_data_type |-> [i \in 1..Len(initializer) |-> data_type]]
                     ELSE FloatBody]
    /\ all_graphs = <<>>
    /\ ret = NoCall
    /\ FreshNaming

\* One call of convert_model_float32_to_float16 on the model; the call
\* frame keeps the primary graph as it was at the call.
ConvertModelFloat32ToFloat16(cast_input_output) ==
    LET r == convert_model_float32_to_float16(graph, all_graphs, cast_input_output)
    IN  /\ ret = NoCall
        /\ graph' = r.graph
        /\ all_graphs' = r.all_graphs
        /\ ret' = [op |-> "convert_model_float32_to_float16",
                   cast_input_output |-> cast_input_output, before |-> graph[Primary]]
        /\ UNCHANGED naming

NextFloat == \E cast_input_output \in BOOLEAN : ConvertModelFloat32ToFloat16(cast_input_output)

SpecFloat == InitFloat /\ [][NextFloat]_vars

\* C20: after convert_model_float32_to_float16 with cast_input_output=True
\* every graph input and every graph output of the primary graph has the
\* element type it was declared with, also when a float32 graph input has
\* an initializer of its name.
C20_BoundaryTypesKept ==
    (ret.op = "convert_model_float32_to_float16" /\ ret.cast_input_output) =>
        /\ graph[Primary].input = ret.before.input
        /\ graph[Primary].input_elem_type = ret.before.input_elem_type
        /\ graph[Primary].output = ret.before.output
        /\ graph[Primary].output_elem_type = ret.before.output_elem_type

\* The nodes of the model, those of the nested graphs included, that read
\* the name.
ConsumersInModel(name) ==
    UNION {{node \in Range(graph[gid].node) : name \in Range(node.input)} :
              gid \in NestedFrom({Primary})}

\* The graph inputs of the primary graph a conversion node is inserted
\* for: declared float32 at the call, no initializer of the name.
CastedInputs ==
    {ret.before.input[i] : i \in
        {j \in 1..Len(ret.before.input) :
            /\ ret.before.input_elem_type[j] = FLOAT
            /\ ret.before.input[j] \notin Range(ret.before.initializer)}}

\* C21: after convert_model_float32_to_float16 with cast_input_output=True
\* the one node that reads a float32 graph input is the Cast node inserted
\* for it; every other node of the primary graph and of the nested graphs
\* that read the input reads the Cast node's output instead.
C21_ConsumersReadCast ==
    (ret.op = "convert_model_float32_to_float16" /\ ret.cast_input_output) =>
        \A name \in CastedInputs :
            ConsumersInModel(name) = {CastNode(name, name \o "_float16", FLOAT16)}

(***************************************************************************)
(* The failed sort, checked under SpecSort.                                *)
(***************************************************************************)
\* C22: when topological_sort fails, that is when the number of emitted
\* nodes differs from the number of nodes, the assertion is raised and the
\* node list of the primary graph, like every other graph, is as it was
\* before the call.
C22_FailedSortKeepsNodes ==
    [][(ret'.op = "topological_sort" /\ Len(ret'.emitted) # Len(graph[Primary].node)) =>
          /\ ret'.raised
          /\ graph' = graph]_vars

\* A sort has failed after emitting some of the nodes, and the graph still
\* holds more nodes than were emitted.
C22_Witness ==
    /\ ret.op = "topological_sort"
    /\ ret.raised
    /\ ret.emitted # <<>>
    /\ Len(ret.emitted) < Len(graph[Primary].node)

=============================================================================
